---- MODULE Spec2Model ----
(***************************************************************************)
(* Entitlement ledger of the server: the `feature` table (versioned        *)
(* definitions), the `userFeature` table (activation records), and the     *)
(* operations of QuotaService and UserService that read and write them.    *)
(*                                                                         *)
(* Every operation is run by a process; one step of a process is one       *)
(* awaited database statement.  A statement issued on `this.prisma` is     *)
(* committed at once.  A statement issued on the `tx` handle of            *)
(* prisma.$transaction(async tx => ...) is buffered in the transaction     *)
(* (txIns, txUpd) and becomes visible to the others when the callback      *)
(* returns (commit); when the callback throws, the buffer is dropped       *)
(* (rollback).  No isolation level is passed to $transaction, so every     *)
(* statement of a transaction reads the rows committed at the time it      *)
(* runs plus the transaction's own writes, and an update waits for the     *)
(* rows another open transaction has updated (row locks).                  *)
(***************************************************************************)
EXTENDS Integers, Sequences, FiniteSets, TLC

\* rows ever inserted into userFeature (the autoincrement id stops here)
MaxRecords == 2

\* the last tick of the clock
MaxTime == 2

Procs == {"p1", "p2"}
\* the ids of the rows of the table users, in the order they are given out
UserIds == <<"u1", "u2">>
Users == { UserIds[k] : k \in DOMAIN UserIds }

\* the emails the calls are made with
Emails == {"e1", "e2"}

\* the executor `this.prisma` (statements outside any transaction)
prisma == "prisma"

FeatureKind == [Feature |-> 0, Quota |-> 1]

FeatureType ==
  [ Admin              |-> "administrator",
    EarlyAccess        |-> "early_access",
    AIEarlyAccess      |-> "ai_early_access",
    UnlimitedCopilot   |-> "unlimited_copilot",
    UnlimitedWorkspace |-> "unlimited_workspace",
    PersonalWorkspace  |-> "personal_workspace",
    TeamWorkspace      |-> "team_workspace",
    Copilot            |-> "copilot" ]

\* the compiled-in registry, in its order; the row id is the position
Features ==
  << [feature |-> FeatureType.Copilot,            type |-> FeatureKind.Feature, version |-> 1],
     [feature |-> FeatureType.EarlyAccess,        type |-> FeatureKind.Feature, version |-> 1],
     [feature |-> FeatureType.EarlyAccess,        type |-> FeatureKind.Feature, version |-> 2],
     [feature |-> FeatureType.UnlimitedWorkspace, type |-> FeatureKind.Feature, version |-> 1],
     [feature |-> FeatureType.UnlimitedCopilot,   type |-> FeatureKind.Feature, version |-> 1],
     [feature |-> FeatureType.AIEarlyAccess,      type |-> FeatureKind.Feature, version |-> 1],
     [feature |-> FeatureType.Admin,              type |-> FeatureKind.Feature, version |-> 1],
     [feature |-> FeatureType.PersonalWorkspace,  type |-> FeatureKind.Feature, version |-> 1],
     [feature |-> FeatureType.TeamWorkspace,      type |-> FeatureKind.Feature, version |-> 1] >>

\* the registry of the specification's scenario: Personal and Team are
\* definitions of kind Quota, the other rows are as in Features
QuotaFeatures ==
  [ n \in DOMAIN Features |->
      IF Features[n].feature \in {FeatureType.PersonalWorkspace, FeatureType.TeamWorkspace}
      THEN [Features[n] EXCEPT !.type = FeatureKind.Quota]
      ELSE Features[n] ]

\* the registry of the scenario after the catalog upgrade: version 2 of Team
\* is added, the rows of version 1 are as before
QuotaFeaturesV2 ==
  Append(QuotaFeatures,
         [feature |-> FeatureType.TeamWorkspace, type |-> FeatureKind.Quota, version |-> 2])

VARIABLES
  feature,      \* table feature: sequence of definition rows, id = position
  users,        \* table users: the rows [id, email] of the accounts
  userFeature,  \* table userFeature: the committed activation records
  nextId,       \* autoincrement of userFeature.id
  txIns,        \* per process: rows created on its tx, not yet committed
  txUpd,        \* per process: ids its tx set activated = false on, not yet committed
  stmtRows,     \* per process: the ids of the rows of its updateMany that waits for a row lock
  pc,           \* per process: the statement it is about to run
  call,         \* per process: the operation and its arguments
  i,            \* per process: index of the loop of addUserFeatures
  featureId,    \* per process: the local featureId
  hasSameActivatedQuota,  \* per process: the local of switchUserQuota
  quotas,       \* per process: the local quota / quotas / configs of the reads
  result,       \* the operation that just ended and how (until the next call)
  now           \* the time of the clock (new Date()), in ticks

vars == <<feature, users, userFeature, nextId, txIns, txUpd, stmtRows, pc, call, i,
          featureId, hasSameActivatedQuota, quotas, result, now>>

-----------------------------------------------------------------------------
(* The database: what a statement reads and what it writes.               *)

\* the rows a statement issued on executor e reads: the committed rows,
\* and for a tx handle also the transaction's own uncommitted writes
View(e) ==
  IF e = prisma THEN userFeature
  ELSE { [r EXCEPT !.activated = r.activated /\ r.id \notin txUpd[e]] :
           r \in userFeature \cup txIns[e] }

\* a row of the table users
User(id, email) == [id |-> id, email |-> email]

\* the ids of the accounts
userIds == { x.id : x \in users }

\* SELECT ... FROM "users" WHERE lower("email") = lower(${email}): the rows
\* (the emails of the calls are lower case)
findUserByEmail(email) == { x \in users : x.email = email }

\* the id of a created row (a fresh uuid): an id that no row, no record and
\* no call in flight holds, "" when every id of UserIds is held
newUserId ==
  LET held == userIds \cup { r.userId : r \in userFeature }
                      \cup UNION { { r.userId : r \in txIns[q] } : q \in Procs }
                      \cup { call[q].userId : q \in Procs }
      free == { k \in DOMAIN UserIds : UserIds[k] \notin held }
  IN IF free = {} THEN ""
     ELSE UserIds[CHOOSE k \in free : \A m \in free : k <= m]

\* the outcome of prisma.user.update({ where: {id}, data }), email being
\* data.email ("" when data has none): no row of that id (P2025), the email
\* is the one of another row (users.email is unique: P2002), or the update
userUpdateOutcome(id, email) ==
  IF id \notin userIds THEN "P2025"
  ELSE IF email # "" /\ \E x \in users : x.id # id /\ x.email = email THEN "P2002"
  ELSE "ok"

\* the table users after prisma.user.update({ where: {id}, data })
userUpdate(id, email) ==
  { IF x.id = id /\ email # "" THEN [x EXCEPT !.email = email] ELSE x : x \in users }

\* latestFeatureId with the type missing from the where clause
latestFeatureId_anyKind(name, kind) ==
  LET match == { n \in DOMAIN feature : feature[n].feature = name }
  IN IF match = {} THEN 0
     ELSE CHOOSE n \in match : \A m \in match : feature[m].version <= feature[n].version

\* latestFeatureId with orderBy: {version: 'asc'}
latestFeatureId_lowestVersion(name, kind) ==
  LET match == { n \in DOMAIN feature :
                   feature[n].feature = name /\ feature[n].type = kind }
  IN IF match = {} THEN 0
     ELSE CHOOSE n \in match : \A m \in match : feature[n].version <= feature[m].version

\* feature.findFirst({ where: {feature: name, type: kind},
\*                     orderBy: {version: 'desc'} }).then(f => f?.id);
\* 0 stands for undefined
latestFeatureId(name, kind) ==
  LET match == { n \in DOMAIN feature :
                   feature[n].feature = name /\ feature[n].type = kind }
  IN IF match = {} THEN 0
     ELSE CHOOSE n \in match : \A m \in match : feature[m].version <= feature[n].version

\* no open transaction of a process other than p holds the lock of a row of ids
unlocked(p, ids) == \A q \in Procs \ {p} : txUpd[q] \cap ids = {}

\* the write of userFeature.updateMany({ where: <the rows ids>,
\* data: {activated: false} }) issued on executor e
deactivate(e, ids) ==
  IF e = prisma
  THEN /\ userFeature' = { [r EXCEPT !.activated = r.activated /\ r.id \notin ids] :
                             r \in userFeature }
       /\ UNCHANGED <<txIns, txUpd>>
  ELSE /\ txUpd' = [txUpd EXCEPT ![e] = @ \cup ids]
       /\ UNCHANGED <<userFeature, txIns>>

\* an updateMany run as one step (by an operation that is one step): it runs
\* when no open transaction holds the lock of a row it updates
updateManyDeactivate(e, ids) ==
  /\ unlocked(e, ids)
  /\ deactivate(e, ids)
  /\ UNCHANGED stmtRows

\* userFeature.create({ data: {userId, featureId, reason, activated: true,
\* expiredAt} }) issued on executor e; expiredAt 0 stands for no expiredAt
create(e, userId, fid, reason, expiredAt) ==
  LET row == [id |-> nextId, userId |-> userId, featureId |-> fid,
              activated |-> TRUE, reason |-> reason, expiredAt |-> expiredAt]
  IN /\ nextId <= MaxRecords
     /\ nextId' = nextId + 1
     /\ IF e = prisma
        THEN userFeature' = userFeature \cup {row} /\ UNCHANGED txIns
        ELSE txIns' = [txIns EXCEPT ![e] = @ \cup {row}] /\ UNCHANGED userFeature
     /\ UNCHANGED <<txUpd, stmtRows>>

\* the callback of prisma.$transaction returned: the writes of p are committed
commit(p) ==
  /\ userFeature' = { [r EXCEPT !.activated = r.activated /\ r.id \notin txUpd[p]] :
                        r \in userFeature \cup txIns[p] }
  /\ txIns' = [txIns EXCEPT ![p] = {}]
  /\ txUpd' = [txUpd EXCEPT ![p] = {}]
  /\ UNCHANGED stmtRows

\* the callback of prisma.$transaction threw: the writes of p are dropped
rollback(p) ==
  /\ txIns' = [txIns EXCEPT ![p] = {}]
  /\ txUpd' = [txUpd EXCEPT ![p] = {}]
  /\ stmtRows' = [stmtRows EXCEPT ![p] = {}]
  /\ UNCHANGED userFeature

\* the arguments of a call; "" stands for undefined (no reason, no email in
\* data), expiredAt 0 for no expiredAt
NoCall == [op |-> "none", userId |-> "", email |-> "", quota |-> "", reason |-> "",
           features |-> << >>, group |-> "", hasData |-> FALSE, dataEmail |-> "",
           plan |-> "", expiredAt |-> 0]

\* an operation op ended with outcome and no value
Result(op, outcome) == [op |-> op, outcome |-> outcome, value |-> << >>]

NoResult == Result("none", "none")

\* the operation of p ends with outcome res: it returns ("ok") or throws
finish(p, res) ==
  /\ pc' = [pc EXCEPT ![p] = "idle"]
  /\ call' = [call EXCEPT ![p] = NoCall]
  /\ result' = [op |-> call[p].op, outcome |-> res, value |-> << >>]
  /\ i' = [i EXCEPT ![p] = 0]
  /\ featureId' = [featureId EXCEPT ![p] = 0]
  /\ hasSameActivatedQuota' = [hasSameActivatedQuota EXCEPT ![p] = FALSE]
  /\ quotas' = [quotas EXCEPT ![p] = << >>]

\* the operation of p returns the value val
return(p, val) ==
  /\ pc' = [pc EXCEPT ![p] = "idle"]
  /\ call' = [call EXCEPT ![p] = NoCall]
  /\ result' = [op |-> call[p].op, outcome |-> "ok", value |-> val]
  /\ i' = [i EXCEPT ![p] = 0]
  /\ featureId' = [featureId EXCEPT ![p] = 0]
  /\ hasSameActivatedQuota' = [hasSameActivatedQuota EXCEPT ![p] = FALSE]
  /\ quotas' = [quotas EXCEPT ![p] = << >>]

goto(p, label) == pc' = [pc EXCEPT ![p] = label]

\* await <e>.userFeature.updateMany(...) of process p, ids being the rows its
\* where clause matches now, and the statement after it.  The rows of the
\* statement are those its where clause matches when it starts.  While an
\* open transaction of another process holds the lock of one of them the
\* statement waits (stmtRows[p] # {}), and when the lock is released it
\* updates the rows it started with: it does not see a row inserted while
\* it waited (READ COMMITTED; the columns of its where clauses that matter
\* here, userId and the definition, never change).
updateMany(p, e, ids, label) ==
  LET rows == IF stmtRows[p] = {} THEN ids ELSE stmtRows[p]
  IN IF unlocked(p, rows)
     THEN /\ deactivate(e, rows)
          /\ stmtRows' = [stmtRows EXCEPT ![p] = {}]
          /\ goto(p, label)
     ELSE /\ stmtRows[p] = {}
          /\ stmtRows' = [stmtRows EXCEPT ![p] = rows]
          /\ UNCHANGED <<userFeature, txIns, txUpd, pc>>

-----------------------------------------------------------------------------
(* QuotaService                                                            *)

\* hasQuota without activated: true in the where clause
hasQuota_anyActivation(userId, quota, e) ==
  Cardinality({ r \in View(e) :
                  /\ r.userId = userId
                  /\ feature[r.featureId].feature = quota
                  /\ feature[r.featureId].type = FeatureKind.Quota }) > 0

\* userFeature.count({ where: {userId, feature: {feature: quota, type: Quota},
\*                              activated: true} }).then(count => count > 0)
hasQuota(userId, quota, e) ==
  Cardinality({ r \in View(e) :
                  /\ r.userId = userId
                  /\ feature[r.featureId].feature = quota
                  /\ feature[r.featureId].type = FeatureKind.Quota
                  /\ r.activated }) > 0

\* quotaRecordIds with the kind of the where clause wrong
quotaRecordIds_wrongKind(e, userId) ==
  { r.id : r \in { x \in View(e) :
                     /\ x.userId = userId
                     /\ feature[x.featureId].type = FeatureKind.Feature } }

\* quotaRecordIds with the userId missing from the where clause
quotaRecordIds_anyUser(e, userId) ==
  { r.id : r \in { x \in View(e) : feature[x.featureId].type = FeatureKind.Quota } }

\* quotaRecordIds with feature: { type } missing from the where clause
quotaRecordIds_anyKind(e, userId) ==
  { r.id : r \in { x \in View(e) : x.userId = userId } }

\* where: { id: undefined, userId, feature: { type: FeatureKind.Quota } }
quotaRecordIds(e, userId) ==
  { r.id : r \in { x \in View(e) :
                     /\ x.userId = userId
                     /\ feature[x.featureId].type = FeatureKind.Quota } }

\* sw_hasQuota without the early return
sw_hasQuota_noReturn(p) ==
  /\ pc[p] = "sw_hasQuota"
  /\ hasSameActivatedQuota' = [hasSameActivatedQuota EXCEPT ![p] =
                                 hasQuota(call[p].userId, call[p].quota, p)]
  /\ goto(p, "sw_findFirst")
  /\ UNCHANGED <<feature, users, now, userFeature, nextId, txIns, txUpd, stmtRows, call, i,
                 featureId, quotas, result>>

\* const hasSameActivatedQuota = await this.hasQuota(userId, quota, tx);
\* if (hasSameActivatedQuota) return;
sw_hasQuota(p) ==
  /\ pc[p] = "sw_hasQuota"
  /\ LET has == hasQuota(call[p].userId, call[p].quota, p)
     IN /\ hasSameActivatedQuota' = [hasSameActivatedQuota EXCEPT ![p] = has]
        /\ goto(p, IF has THEN "sw_commit" ELSE "sw_findFirst")
  /\ UNCHANGED <<feature, users, now, userFeature, nextId, txIns, txUpd, stmtRows, call, i,
                 featureId, quotas, result>>

\* const featureId = await tx.feature.findFirst(...);
\* if (!featureId) throw new Error(`Quota ${quota} not found`);
sw_findFirst(p) ==
  /\ pc[p] = "sw_findFirst"
  /\ LET fid == latestFeatureId(call[p].quota, FeatureKind.Quota)
     IN IF fid = 0
        THEN /\ rollback(p)
             /\ finish(p, "quota_not_found")
        ELSE /\ featureId' = [featureId EXCEPT ![p] = fid]
             /\ goto(p, "sw_updateMany")
             /\ UNCHANGED <<userFeature, txIns, txUpd, stmtRows, call, i,
                            hasSameActivatedQuota, quotas, result>>
  /\ UNCHANGED <<feature, users, now, nextId>>

\* sw_updateMany with the statement issued on this.prisma, not on tx
sw_updateMany_prisma(p) ==
  /\ pc[p] = "sw_updateMany"
  /\ updateMany(p, prisma, quotaRecordIds(prisma, call[p].userId), "sw_create")
  /\ UNCHANGED <<feature, users, now, nextId, call, i, featureId,
                 hasSameActivatedQuota, quotas, result>>

\* await tx.userFeature.updateMany({ where: {userId, feature: {type: Quota}},
\*                                   data: {activated: false} });
sw_updateMany(p) ==
  /\ pc[p] = "sw_updateMany"
  /\ updateMany(p, p, quotaRecordIds(p, call[p].userId), "sw_create")
  /\ UNCHANGED <<feature, users, now, nextId, call, i, featureId,
                 hasSameActivatedQuota, quotas, result>>

\* await tx.userFeature.create({ data: {userId, featureId,
\*     reason: reason ?? 'switch quota', activated: true, expiredAt} });
sw_create(p) ==
  /\ pc[p] = "sw_create"
  /\ create(p, call[p].userId, featureId[p],
            IF call[p].reason = "" THEN "switch quota" ELSE call[p].reason,
            call[p].expiredAt)
  /\ goto(p, "sw_commit")
  /\ UNCHANGED <<feature, users, now, call, i, featureId, hasSameActivatedQuota,
                 quotas, result>>

\* the callback returns and the transaction commits
sw_commit(p) ==
  /\ pc[p] = "sw_commit"
  /\ commit(p)
  /\ finish(p, "ok")
  /\ UNCHANGED <<feature, users, now, nextId>>

switchUserQuota(p) ==
  \/ sw_hasQuota(p)
  \/ sw_findFirst(p)
  \/ sw_updateMany(p)
  \/ sw_create(p)
  \/ sw_commit(p)

\* the values of the enum QuotaType (quota/types): the workspace quotas
QuotaType == {FeatureType.PersonalWorkspace, FeatureType.TeamWorkspace,
              FeatureType.UnlimitedWorkspace}

\* QuotaConfig.get(tx, featureId) resolves: the definition exists and is of
\* kind Quota; otherwise it throws
QuotaConfigResolves(fid) ==
  fid \in DOMAIN feature /\ feature[fid].type = FeatureKind.Quota

\* the rows of S as a sequence, orderBy: { id: 'asc' }
RECURSIVE orderById(_)
orderById(S) ==
  IF S = {} THEN << >>
  ELSE LET r == CHOOSE x \in S : \A y \in S : x.id <= y.id
       IN <<r>> \o orderById(S \ {r})

\* getUserQuotas(userId): the records of kind Quota of the user, by id, those
\* whose QuotaConfig.get throws filtered out
getUserQuotas(userId) ==
  LET rows == { r \in View(prisma) :
                  r.userId = userId /\ feature[r.featureId].type = FeatureKind.Quota }
  IN orderById({ r \in rows : QuotaConfigResolves(r.featureId) })

\* the rows the findFirst of getUserQuota may return (it has no orderBy):
\* where: { userId, feature: {feature: {in: Object.values(QuotaType)}},
\*          activated: true }
getUserQuotaRows(userId) ==
  { r \in View(prisma) :
      /\ r.userId = userId
      /\ feature[r.featureId].feature \in QuotaType
      /\ r.activated }

\* getUserQuota(userId) returns (it throws when no row is found, and when
\* QuotaConfig.get throws on the row found)
getUserQuotaReturns(userId) ==
  /\ getUserQuotaRows(userId) # {}
  /\ \A r \in getUserQuotaRows(userId) : QuotaConfigResolves(r.featureId)

\* the outcomes of await QuotaConfig.get(this.prisma, fid): it returns (TRUE)
\* only when the definition resolves, and it throws (FALSE) when it does not
\* or when the read fails
QuotaConfigGet(fid) ==
  IF QuotaConfigResolves(fid) THEN {TRUE, FALSE} ELSE {FALSE}

\* select: { reason, createdAt, expiredAt, featureId } of getUserQuota
selectQuota(r) ==
  [reason |-> r.reason, expiredAt |-> r.expiredAt, featureId |-> r.featureId]

\* gq_findFirst returning undefined where it throws
gq_findFirst_noThrow(p) ==
  /\ pc[p] = "gq_findFirst"
  /\ IF getUserQuotaRows(call[p].userId) = {}
     THEN return(p, << >>)
     ELSE \E r \in getUserQuotaRows(call[p].userId) :
            /\ quotas' = [quotas EXCEPT ![p] = <<selectQuota(r)>>]
            /\ goto(p, "gq_get")
            /\ UNCHANGED <<call, i, featureId, hasSameActivatedQuota, result>>
  /\ UNCHANGED <<feature, users, now, userFeature, nextId, txIns, txUpd, stmtRows>>

\* const quota = await this.prisma.userFeature.findFirst({ where: ... });
\* if (!quota) throw new Error(`User ${userId} has no quota`);
\* (no orderBy: any of the matching rows is the one found)
gq_findFirst(p) ==
  /\ pc[p] = "gq_findFirst"
  /\ IF getUserQuotaRows(call[p].userId) = {}
     THEN finish(p, "no_quota")
     ELSE \E r \in getUserQuotaRows(call[p].userId) :
            /\ quotas' = [quotas EXCEPT ![p] = <<selectQuota(r)>>]
            /\ goto(p, "gq_get")
            /\ UNCHANGED <<call, i, featureId, hasSameActivatedQuota, result>>
  /\ UNCHANGED <<feature, users, now, userFeature, nextId, txIns, txUpd, stmtRows>>

\* const feature = await QuotaConfig.get(this.prisma, quota.featureId);
\* return { ...quota, feature };   (feature: the config of definition featureId)
gq_get(p) ==
  /\ pc[p] = "gq_get"
  /\ LET quota == quotas[p][1]
     IN \E ok \in QuotaConfigGet(quota.featureId) :
          IF ok
          THEN return(p, << [reason |-> quota.reason, expiredAt |-> quota.expiredAt,
                             featureId |-> quota.featureId,
                             feature |-> quota.featureId] >>)
          ELSE finish(p, "config_not_found")
  /\ UNCHANGED <<feature, users, now, userFeature, nextId, txIns, txUpd, stmtRows>>

getUserQuota(p) ==
  \/ gq_findFirst(p)
  \/ gq_get(p)

\* select: { activated, reason, createdAt, expiredAt, featureId } of
\* getUserQuotas; feature is the config added by the map, 0 while there is none
selectQuotas(r) ==
  [activated |-> r.activated, reason |-> r.reason, expiredAt |-> r.expiredAt,
   featureId |-> r.featureId, feature |-> 0]

\* const quotas = await this.prisma.userFeature.findMany({
\*   where: {userId, feature: {type: FeatureKind.Quota}}, orderBy: {id: 'asc'} });
gqs_findMany(p) ==
  /\ pc[p] = "gqs_findMany"
  /\ LET found == orderById({ r \in View(prisma) :
                                /\ r.userId = call[p].userId
                                /\ feature[r.featureId].type = FeatureKind.Quota })
     IN /\ quotas' = [quotas EXCEPT ![p] =
                        [k \in 1..Len(found) |-> selectQuotas(found[k])]]
        /\ goto(p, IF Len(found) = 0 THEN "gqs_return" ELSE "gqs_get")
  /\ UNCHANGED <<feature, users, now, userFeature, nextId, txIns, txUpd, stmtRows, call, i,
                 featureId, hasSameActivatedQuota, result>>

\* gqs_get without the try / catch: a throw of QuotaConfig.get rejects the
\* Promise.all and the query
gqs_get_noCatch(p) ==
  /\ pc[p] = "gqs_get"
  /\ \E ok \in QuotaConfigGet(quotas[p][i[p]].featureId) :
       IF ok
       THEN /\ quotas' = [quotas EXCEPT ![p][i[p]].feature = quotas[p][i[p]].featureId]
            /\ i' = [i EXCEPT ![p] = @ + 1]
            /\ goto(p, IF i[p] + 1 > Len(quotas[p]) THEN "gqs_return" ELSE "gqs_get")
            /\ UNCHANGED <<call, featureId, hasSameActivatedQuota, result>>
       ELSE finish(p, "config_not_found")
  /\ UNCHANGED <<feature, users, now, userFeature, nextId, txIns, txUpd, stmtRows>>

\* quotas.map(async quota => { try { return { ...quota, feature: await
\*   QuotaConfig.get(this.prisma, quota.featureId) }; } catch {} return null; })
\* one element of the map; the elements only read, so the order in which
\* Promise.all settles them does not matter; feature = 0 is the null
gqs_get(p) ==
  /\ pc[p] = "gqs_get"
  /\ \E ok \in QuotaConfigGet(quotas[p][i[p]].featureId) :
       quotas' = [quotas EXCEPT ![p][i[p]].feature =
                    IF ok THEN quotas[p][i[p]].featureId ELSE 0]
  /\ i' = [i EXCEPT ![p] = @ + 1]
  /\ goto(p, IF i[p] + 1 > Len(quotas[p]) THEN "gqs_return" ELSE "gqs_get")
  /\ UNCHANGED <<feature, users, now, userFeature, nextId, txIns, txUpd, stmtRows, call,
                 featureId, hasSameActivatedQuota, result>>

\* the element is a config, not the null
isConfig(c) == c.feature # 0

\* return configs.filter(quota => !!quota);
gqs_return(p) ==
  /\ pc[p] = "gqs_return"
  /\ return(p, SelectSeq(quotas[p], isConfig))
  /\ UNCHANGED <<feature, users, now, userFeature, nextId, txIns, txUpd, stmtRows>>

getUserQuotasSteps(p) ==
  \/ gqs_findMany(p)
  \/ gqs_get(p)
  \/ gqs_return(p)

-----------------------------------------------------------------------------
(* UserService                                                             *)

\* the latestFlag of addUserFeatures is not null:
\* where: { userId, feature: {feature: name, type: FeatureKind.Feature},
\*          activated: true }
hasActiveFeature(e, userId, name) ==
  \E r \in View(e) :
    /\ r.userId = userId
    /\ feature[r.featureId].feature = name
    /\ feature[r.featureId].type = FeatureKind.Feature
    /\ r.activated

\* for (const feature of features): the statement after iteration k - 1
af_loop(p, k) ==
  IF k > Len(call[p].features) THEN "af_commit" ELSE "af_findFlag"

\* af_findFlag without the continue
af_findFlag_noContinue(p) ==
  /\ pc[p] = "af_findFlag"
  /\ goto(p, "af_findFirst")
  /\ UNCHANGED <<feature, users, now, userFeature, nextId, txIns, txUpd, stmtRows, call, i,
                 featureId, hasSameActivatedQuota, quotas, result>>

\* const latestFlag = await tx.userFeature.findFirst(...);
\* if (latestFlag) continue;
af_findFlag(p) ==
  /\ pc[p] = "af_findFlag"
  /\ IF hasActiveFeature(p, call[p].userId, call[p].features[i[p]])
     THEN /\ i' = [i EXCEPT ![p] = @ + 1]
          /\ goto(p, af_loop(p, i[p] + 1))
     ELSE /\ goto(p, "af_findFirst")
          /\ UNCHANGED i
  /\ UNCHANGED <<feature, users, now, userFeature, nextId, txIns, txUpd, stmtRows, call,
                 featureId, hasSameActivatedQuota, quotas, result>>

\* const featureId = await tx.feature.findFirst(...);
\* if (!featureId) throw new Error(`Feature ${feature} not found`);
af_findFirst(p) ==
  /\ pc[p] = "af_findFirst"
  /\ LET fid == latestFeatureId(call[p].features[i[p]], FeatureKind.Feature)
     IN IF fid = 0
        THEN /\ rollback(p)
             /\ finish(p, "feature_not_found")
        ELSE /\ featureId' = [featureId EXCEPT ![p] = fid]
             /\ goto(p, "af_create")
             /\ UNCHANGED <<userFeature, txIns, txUpd, stmtRows, call, i,
                            hasSameActivatedQuota, quotas, result>>
  /\ UNCHANGED <<feature, users, now, nextId>>

\* await tx.userFeature.create({ data: {reason: 'sign up', activated: true,
\*                                       userId, featureId} });
af_create(p) ==
  /\ pc[p] = "af_create"
  /\ create(p, call[p].userId, featureId[p], "sign up", 0)
  /\ i' = [i EXCEPT ![p] = @ + 1]
  /\ goto(p, af_loop(p, i[p] + 1))
  /\ UNCHANGED <<feature, users, now, call, featureId, hasSameActivatedQuota, quotas, result>>

\* the loop is over, the callback returns and the transaction commits
af_commit(p) ==
  /\ pc[p] = "af_commit"
  /\ commit(p)
  /\ finish(p, "ok")
  /\ UNCHANGED <<feature, users, now, nextId>>

addUserFeatures(p) ==
  \/ af_findFlag(p)
  \/ af_findFirst(p)
  \/ af_create(p)
  \/ af_commit(p)

\* the email of the data createUser is called with: fulfillUser passes
\* { email, name, ...data }, so an email in data replaces its argument
cu_email(p) ==
  IF call[p].dataEmail # "" THEN call[p].dataEmail ELSE call[p].email

\* let user = await this.findUserByEmail(data.email);
\* if (user) throw new EmailAlreadyUsed();
cu_findUser(p) ==
  /\ pc[p] = "cu_findUser"
  /\ IF findUserByEmail(cu_email(p)) # {}
     THEN finish(p, "email_used")
     ELSE /\ goto(p, "cu_create")
          /\ UNCHANGED <<call, i, featureId, hasSameActivatedQuota, quotas, result>>
  /\ UNCHANGED <<feature, users, now, userFeature, nextId, txIns, txUpd, stmtRows>>

\* const createdUser = await this.prisma.user.create({ data });
\* await this.addUserFeatures(createdUser.id, features);
\* users.email is unique: the create rejects (P2002) when a row with the
\* email was inserted since the lookup, whatever ids are held; a row is
\* inserted only while UserIds has an id left for it
cu_create(p) ==
  /\ pc[p] = "cu_create"
  /\ IF findUserByEmail(cu_email(p)) # {}
     THEN /\ finish(p, "P2002")
          /\ UNCHANGED users
     ELSE /\ newUserId # ""
          /\ users' = users \cup {User(newUserId, cu_email(p))}
          /\ call' = [call EXCEPT ![p].userId = newUserId]
          /\ goto(p, af_loop(p, 1))
          /\ UNCHANGED <<i, featureId, hasSameActivatedQuota, quotas, result>>
  /\ UNCHANGED <<feature, userFeature, nextId, txIns, txUpd, stmtRows, now>>

createUser(p) ==
  \/ cu_findUser(p)
  \/ cu_create(p)

\* the features fulfillUser pushes for a group (switch (group) ...)
groupFeatures(group) ==
  CASE group = "Admin"    -> <<FeatureType.Admin, FeatureType.UnlimitedWorkspace>>
    [] group = "TeamLead" -> <<FeatureType.TeamWorkspace>>
    [] group = "User"     -> <<FeatureType.PersonalWorkspace>>
    [] OTHER              -> << >>

\* const user = await this.findUserByEmail(email);
\* if (!user) return this.createUser({ email, name, ...data }, features);
\* if (Object.keys(data).length) { ... }   this.emitter.emit(...); return user;
\* (hasData: data has a key left after the deletes of lines 285-290)
fu_findUser(p) ==
  /\ pc[p] = "fu_findUser"
  /\ IF findUserByEmail(call[p].email) = {}
     THEN /\ goto(p, "cu_findUser")
          /\ UNCHANGED <<call, i, featureId, hasSameActivatedQuota, quotas, result>>
     ELSE IF call[p].hasData
          THEN /\ call' = [call EXCEPT ![p].userId =
                             (CHOOSE x \in findUserByEmail(call[p].email) : TRUE).id]
               /\ goto(p, "fu_update")
               /\ UNCHANGED <<i, featureId, hasSameActivatedQuota, quotas, result>>
          ELSE finish(p, "ok")
  /\ UNCHANGED <<feature, users, now, userFeature, nextId, txIns, txUpd, stmtRows>>

\* const updatedUser = await this.prisma.user.update({ where: {id: user.id},
\*                                                     data });
fu_update(p) ==
  /\ pc[p] = "fu_update"
  /\ LET outcome == userUpdateOutcome(call[p].userId, call[p].dataEmail)
     IN IF outcome = "ok"
        THEN /\ users' = userUpdate(call[p].userId, call[p].dataEmail)
             /\ goto(p, "fu_updateMany")
             /\ UNCHANGED <<call, i, featureId, hasSameActivatedQuota, quotas, result>>
        ELSE /\ finish(p, outcome)
             /\ UNCHANGED users
  /\ UNCHANGED <<feature, now, userFeature, nextId, txIns, txUpd, stmtRows>>

\* where: { userId: updatedUser.id, activated: true }
activeRecordIds(e, userId) ==
  { r.id : r \in { x \in View(e) : x.userId = userId /\ x.activated } }

\* fu_updateMany with deleteMany for updateMany: the active records of the
\* account are deleted
fu_updateMany_deleteMany(p) ==
  /\ pc[p] = "fu_updateMany"
  /\ unlocked(p, activeRecordIds(prisma, call[p].userId))
  /\ userFeature' = { r \in userFeature :
                        r.id \notin activeRecordIds(prisma, call[p].userId) }
  /\ UNCHANGED <<txIns, txUpd, stmtRows>>
  /\ goto(p, af_loop(p, 1))
  /\ UNCHANGED <<feature, users, now, nextId, call, i, featureId,
                 hasSameActivatedQuota, quotas, result>>

\* await this.prisma.userFeature.updateMany({ where: {userId, activated: true},
\*                                            data: {activated: false} });
\* then addUserFeatures(updatedUser.id, features) opens its transaction
fu_updateMany(p) ==
  /\ pc[p] = "fu_updateMany"
  /\ updateMany(p, prisma, activeRecordIds(prisma, call[p].userId), af_loop(p, 1))
  /\ UNCHANGED <<feature, users, now, nextId, call, i, featureId,
                 hasSameActivatedQuota, quotas, result>>

fulfillUser(p) ==
  \/ fu_findUser(p)
  \/ fu_update(p)
  \/ fu_updateMany(p)

\* const ownedWorkspaces = await this.permission.getOwnedWorkspaces(id);
\* (a read of the permissions, which are no part of the ledger)
du_getOwnedWorkspaces(p) ==
  /\ pc[p] = "du_getOwnedWorkspaces"
  /\ goto(p, "du_delete")
  /\ UNCHANGED <<feature, users, now, userFeature, nextId, txIns, txUpd, stmtRows,
                 call, i, featureId, hasSameActivatedQuota, quotas, result>>

\* the committed records of account userId
recordsOf(userId) == { r \in userFeature : r.userId = userId }

\* const user = await this.prisma.user.delete({ where: { id } });
\* it rejects (P2025) when there is no row of that id; the statement deletes
\* the row of users.  What becomes of the records of the account is decided
\* by the relation of userFeature.userId in the Prisma schema, which is not
\* among the sources: they are deleted with the row (onDelete: Cascade, once
\* no open transaction holds the lock of one of them or has inserted one that
\* references the row) or they stay.
du_delete(p) ==
  /\ pc[p] = "du_delete"
  /\ IF call[p].userId \in userIds
     THEN /\ users' = { x \in users : x.id # call[p].userId }
          /\ \E cascade \in BOOLEAN :
               IF cascade
               THEN /\ unlocked(p, { r.id : r \in recordsOf(call[p].userId) })
                    /\ \A q \in Procs \ {p} :
                         \A r \in txIns[q] : r.userId # call[p].userId
                    /\ userFeature' = userFeature \ recordsOf(call[p].userId)
               ELSE UNCHANGED userFeature
          /\ finish(p, "ok")
     ELSE /\ finish(p, "P2025")
          /\ UNCHANGED <<users, userFeature>>
  /\ UNCHANGED <<feature, now, nextId, txIns, txUpd, stmtRows>>

deleteUser(p) ==
  \/ du_getOwnedWorkspaces(p)
  \/ du_delete(p)

\* if (data.email) { const emailTaken = await this.prisma.user.count({ where:
\*   {email: data.email, id: {not: id}} }); if (emailTaken) throw new
\*   EmailAlreadyUsed(); }
uu_count(p) ==
  /\ pc[p] = "uu_count"
  /\ IF \E x \in users : x.email = call[p].dataEmail /\ x.id # call[p].userId
     THEN finish(p, "email_used")
     ELSE /\ goto(p, "uu_update")
          /\ UNCHANGED <<call, i, featureId, hasSameActivatedQuota, quotas, result>>
  /\ UNCHANGED <<feature, users, now, userFeature, nextId, txIns, txUpd, stmtRows>>

\* const user = await this.prisma.user.update({ where: { id }, data, select });
\* this.emitter.emit('user.updated', user); return user;
uu_update(p) ==
  /\ pc[p] = "uu_update"
  /\ LET outcome == userUpdateOutcome(call[p].userId, call[p].dataEmail)
     IN /\ users' = IF outcome = "ok"
                    THEN userUpdate(call[p].userId, call[p].dataEmail)
                    ELSE users
        /\ finish(p, outcome)
  /\ UNCHANGED <<feature, now, userFeature, nextId, txIns, txUpd, stmtRows>>

updateUser(p) ==
  \/ uu_count(p)
  \/ uu_update(p)

-----------------------------------------------------------------------------
(* Subscription events (QuotaService.onSubscriptionUpdated/Canceled)       *)

\* FeatureManagementService.addCopilot(userId, reason): grant the AI feature
\* unless it is already actively granted (one atomic ledger operation)
addCopilot(userId) ==
  LET fid == latestFeatureId(FeatureType.UnlimitedCopilot, FeatureKind.Feature)
  IN IF hasActiveFeature(prisma, userId, FeatureType.UnlimitedCopilot) \/ fid = 0
     THEN UNCHANGED <<userFeature, nextId, txIns, txUpd, stmtRows>>
     ELSE create(prisma, userId, fid, "subscription activated", 0)

\* FeatureManagementService.removeCopilot(userId): deactivate the active
\* records of the AI feature of the account
removeCopilot(userId) ==
  /\ updateManyDeactivate(prisma,
       { r.id : r \in { x \in userFeature :
                          /\ x.userId = userId
                          /\ x.activated
                          /\ feature[x.featureId].feature = FeatureType.UnlimitedCopilot
                          /\ feature[x.featureId].type = FeatureKind.Feature } })
  /\ UNCHANGED nextId

\* @OnEvent('user.subscription.activated'): switch (plan) ...
onSubscriptionUpdated(p) ==
  /\ pc[p] = "ev_activated"
  /\ CASE call[p].plan = "ai"  -> addCopilot(call[p].userId)
       [] call[p].plan = "pro" -> UNCHANGED <<userFeature, nextId, txIns, txUpd, stmtRows>>
       [] OTHER                -> UNCHANGED <<userFeature, nextId, txIns, txUpd, stmtRows>>
  /\ finish(p, "ok")
  /\ UNCHANGED <<feature, users, now>>

\* onSubscriptionCanceled downgrading on plan pro: the quota records of the
\* account are deactivated
onSubscriptionCanceled_proDowngrades(p) ==
  /\ pc[p] = "ev_canceled"
  /\ CASE call[p].plan = "ai"  -> removeCopilot(call[p].userId)
       [] call[p].plan = "pro" ->
            /\ updateManyDeactivate(prisma, quotaRecordIds(prisma, call[p].userId))
            /\ UNCHANGED nextId
       [] OTHER                -> UNCHANGED <<userFeature, nextId, txIns, txUpd, stmtRows>>
  /\ finish(p, "ok")
  /\ UNCHANGED <<feature, users, now>>

\* @OnEvent('user.subscription.canceled'): switch (plan) ...
onSubscriptionCanceled(p) ==
  /\ pc[p] = "ev_canceled"
  /\ CASE call[p].plan = "ai"  -> removeCopilot(call[p].userId)
       [] call[p].plan = "pro" -> UNCHANGED <<userFeature, nextId, txIns, txUpd, stmtRows>>
       [] OTHER                -> UNCHANGED <<userFeature, nextId, txIns, txUpd, stmtRows>>
  /\ finish(p, "ok")
  /\ UNCHANGED <<feature, users, now>>

-----------------------------------------------------------------------------
(* The seeding migration (UserFeaturesInit1698652531198)                   *)

\* a definition with the name and version of def is persisted
persisted(def) ==
  \E n \in DOMAIN feature :
    feature[n].feature = def.feature /\ feature[n].version = def.version

\* upsertFeature(db, feature) of migrations/utils/user-features: insert the
\* definition unless one with its (name, version) is persisted; the unique
\* key decides, a conflict is success, and no existing row is modified
upsertFeature(def) ==
  feature' = IF persisted(def) THEN feature ELSE Append(feature, def)

\* the body of the loop overwriting the persisted definition of the same
\* (name, version) with the one of the registry
up_overwrite(p) ==
  /\ pc[p] = "up_upsertFeature"
  /\ LET def == call[p].features[i[p]]
     IN feature' = IF persisted(def)
                   THEN [ n \in DOMAIN feature |->
                            IF /\ feature[n].feature = def.feature
                               /\ feature[n].version = def.version
                            THEN def ELSE feature[n] ]
                   ELSE Append(feature, def)
  /\ IF i[p] + 1 > Len(call[p].features)
     THEN finish(p, "ok")
     ELSE /\ i' = [i EXCEPT ![p] = @ + 1]
          /\ UNCHANGED <<pc, call, featureId, hasSameActivatedQuota, quotas, result>>
  /\ UNCHANGED <<users, now, userFeature, nextId, txIns, txUpd, stmtRows>>

\* static async up(db):
\*   for (const feature of Features) { await upsertFeature(db, feature); }
\* one iteration of the loop; call[p].features is the registry of the build
up(p) ==
  /\ pc[p] = "up_upsertFeature"
  /\ upsertFeature(call[p].features[i[p]])
  /\ IF i[p] + 1 > Len(call[p].features)
     THEN finish(p, "ok")
     ELSE /\ i' = [i EXCEPT ![p] = @ + 1]
          /\ UNCHANGED <<pc, call, featureId, hasSameActivatedQuota, quotas, result>>
  /\ UNCHANGED <<users, now, userFeature, nextId, txIns, txUpd, stmtRows>>

-----------------------------------------------------------------------------
(* Failures, calls and the specifications                                  *)

TxLabels == {"sw_hasQuota", "sw_findFirst", "sw_updateMany", "sw_create", "sw_commit",
             "af_findFlag", "af_findFirst", "af_create", "af_commit"}

\* a statement of the open transaction of p (or its commit) fails: the
\* callback throws and the transaction is rolled back
TxFail(p) ==
  /\ pc[p] \in TxLabels
  /\ rollback(p)
  /\ finish(p, "failed")
  /\ UNCHANGED <<feature, users, now, nextId>>

\* the values of the arguments the calls are made with
QuotaInputs == QuotaType
FeatureInputs == { <<FeatureType.EarlyAccess>>,
                   <<FeatureType.EarlyAccess, FeatureType.EarlyAccess>>,
                   <<FeatureType.EarlyAccess, FeatureType.Copilot>> }
\* the statements awaited on this.prisma or on db, outside any transaction
StmtLabels == {"fu_findUser", "cu_findUser", "cu_create", "fu_update", "fu_updateMany",
               "du_getOwnedWorkspaces", "du_delete", "uu_count", "uu_update",
               "gq_findFirst", "gqs_findMany", "up_upsertFeature"}

\* the handlers of the subscription events: on plan 'ai' they await
\* this.feature.addCopilot / removeCopilot, on the other plans nothing
EventLabels == {"ev_activated", "ev_canceled"}

\* what process p awaits outside a transaction rejects (the connection or
\* the query fails; at fu_findUser and cu_findUser also: assertValidEmail
\* throws), nothing is written and the operation rejects
StmtFail(p) ==
  /\ pc[p] \in StmtLabels \cup (IF call[p].plan = "ai" THEN EventLabels ELSE {})
  /\ stmtRows' = [stmtRows EXCEPT ![p] = {}]
  /\ finish(p, "failed")
  /\ UNCHANGED <<feature, users, now, userFeature, nextId, txIns, txUpd>>

Groups == {"Admin", "TeamLead", "User", "Other"}

\* the reasons switchUserQuota is called with: none, and one
Reasons == {"", "upgrade"}
Plans == {"ai", "pro"}

Idle(p) == pc[p] = "idle"

\* process p starts the operation c at statement label
Call(p, c, label) ==
  /\ Idle(p)
  /\ call' = [call EXCEPT ![p] = c]
  /\ pc' = [pc EXCEPT ![p] = label]
  /\ i' = [i EXCEPT ![p] = IF c.op \in {"addUserFeatures", "fulfillUser", "up",
                                           "getUserQuotas"}
                           THEN 1 ELSE 0]
  /\ result' = NoResult
  /\ UNCHANGED <<feature, users, now, userFeature, nextId, txIns, txUpd, stmtRows, featureId,
                 hasSameActivatedQuota, quotas>>

call_switchUserQuota(p) ==
  \E u \in userIds, q \in QuotaInputs :
    Call(p, [NoCall EXCEPT !.op = "switchUserQuota", !.userId = u, !.quota = q],
         "sw_hasQuota")

call_addUserFeatures(p) ==
  \E u \in userIds, fs \in FeatureInputs :
    LET c == [NoCall EXCEPT !.op = "addUserFeatures", !.userId = u, !.features = fs]
    IN Call(p, c, "af_findFlag")

\* fulfillUser(email, group, data): data is empty or has a name
call_fulfillUser(p) ==
  \E e \in Emails, g \in Groups, d \in BOOLEAN :
    Call(p, [NoCall EXCEPT !.op = "fulfillUser", !.email = e, !.group = g,
                           !.features = groupFeatures(g), !.hasData = d],
         "fu_findUser")

\* fulfillUser(email, group, data) with an email in data
call_fulfillUser_dataEmail(p) ==
  \E e \in Emails, de \in Emails, g \in {"User"} :
    Call(p, [NoCall EXCEPT !.op = "fulfillUser", !.email = e, !.group = g,
                           !.features = groupFeatures(g), !.hasData = TRUE,
                           !.dataEmail = de],
         "fu_findUser")

\* deleteUser(id)
call_deleteUser(p) ==
  \E u \in userIds :
    Call(p, [NoCall EXCEPT !.op = "deleteUser", !.userId = u], "du_getOwnedWorkspaces")

\* updateUser(id, data): data has a name, or an email (and no password)
call_updateUser(p) ==
  \E u \in userIds, de \in Emails \cup {""} :
    Call(p, [NoCall EXCEPT !.op = "updateUser", !.userId = u, !.hasData = TRUE,
                           !.dataEmail = de],
         IF de = "" THEN "uu_update" ELSE "uu_count")

call_onSubscriptionUpdated(p) ==
  \E u \in userIds, pl \in Plans :
    Call(p, [NoCall EXCEPT !.op = "onSubscriptionUpdated", !.userId = u, !.plan = pl],
         "ev_activated")

call_onSubscriptionCanceled(p) ==
  \E u \in userIds, pl \in Plans :
    Call(p, [NoCall EXCEPT !.op = "onSubscriptionCanceled", !.userId = u, !.plan = pl],
         "ev_canceled")

call_getUserQuota(p) ==
  \E u \in userIds :
    Call(p, [NoCall EXCEPT !.op = "getUserQuota", !.userId = u], "gq_findFirst")

call_getUserQuotas(p) ==
  \E u \in userIds :
    Call(p, [NoCall EXCEPT !.op = "getUserQuotas", !.userId = u], "gqs_findMany")

Calls(p) ==
  \/ call_switchUserQuota(p)
  \/ call_addUserFeatures(p)
  \/ call_fulfillUser(p)
  \/ call_onSubscriptionUpdated(p)
  \/ call_onSubscriptionCanceled(p)
  \/ call_getUserQuota(p)
  \/ call_getUserQuotas(p)

Steps(p) ==
  \/ switchUserQuota(p)
  \/ addUserFeatures(p)
  \/ createUser(p)
  \/ fulfillUser(p)
  \/ onSubscriptionUpdated(p)
  \/ onSubscriptionCanceled(p)
  \/ getUserQuota(p)
  \/ getUserQuotasSteps(p)
  \/ TxFail(p)
  \/ StmtFail(p)

\* the email the accounts of the initial states were created with
EmailOf == [u1 |-> "e1", u2 |-> "e2"]

\* the tables and the processes before any operation, with the definitions
\* of registry seeded and the accounts of us created
InitWith(registry, us) ==
  /\ feature = registry
  /\ users = { User(u, EmailOf[u]) : u \in us }
  /\ userFeature = {}
  /\ nextId = 1
  /\ txIns = [p \in Procs |-> {}]
  /\ txUpd = [p \in Procs |-> {}]
  /\ stmtRows = [p \in Procs |-> {}]
  /\ pc = [p \in Procs |-> "idle"]
  /\ call = [p \in Procs |-> NoCall]
  /\ i = [p \in Procs |-> 0]
  /\ featureId = [p \in Procs |-> 0]
  /\ hasSameActivatedQuota = [p \in Procs |-> FALSE]
  /\ quotas = [p \in Procs |-> << >>]
  /\ result = NoResult
  /\ now = 0

\* Concurrent operations on one account: the account exists and has no
\* record yet; two processes switch its quota and add features to it, their
\* statements interleaved.
Init == \E registry \in {Features, QuotaFeatures} : InitWith(registry, {"u1"})

Next ==
  \E p \in Procs :
    \/ call_switchUserQuota(p)
    \/ call_addUserFeatures(p)
    \/ switchUserQuota(p)
    \/ addUserFeatures(p)
    \/ TxFail(p)

Spec == Init /\ [][Next]_vars

\* Every operation, run to completion one after another, from the empty
\* tables of users and activation records.
InitSeq == \E registry \in {Features, QuotaFeatures} : InitWith(registry, {})

NextSeq == Calls("p1") \/ Steps("p1")

SeqSpec == InitSeq /\ [][NextSeq]_vars

\* the registries the migration is run with: the one of the source, the one
\* of the scenario, and the scenario's after its upgrade
Registries == {Features, QuotaFeatures, QuotaFeaturesV2}

call_up(p) ==
  \E registry \in Registries :
    Call(p, [NoCall EXCEPT !.op = "up", !.features = registry], "up_upsertFeature")

\* Seeding and upgrading the catalog: the definition table starts empty, the
\* migration is run by either process, any number of times, also by both at
\* once (the instances of a deployment starting up), while process p1
\* switches the quota of the account and adds features to it.
InitSeed == InitWith(<< >>, {"u1"})

NextSeed ==
  \/ \E p \in Procs : call_up(p) \/ up(p) \/ StmtFail(p)
  \/ call_switchUserQuota("p1")
  \/ call_addUserFeatures("p1")
  \/ switchUserQuota("p1")
  \/ addUserFeatures("p1")
  \/ TxFail("p1")

SeedSpec == InitSeed /\ [][NextSeed]_vars

\* the clock advances
Tick ==
  /\ now < MaxTime
  /\ now' = now + 1
  /\ UNCHANGED <<feature, users, userFeature, nextId, txIns, txUpd, stmtRows, pc, call, i,
                 featureId, hasSameActivatedQuota, quotas, result>>

\* switchUserQuota(userId, quota, reason) with a reason
call_switchUserQuota_reason(p) ==
  \E u \in userIds, q \in QuotaInputs, r \in Reasons \ {""} :
    Call(p, [NoCall EXCEPT !.op = "switchUserQuota", !.userId = u, !.quota = q,
                           !.reason = r],
         "sw_hasQuota")

\* switchUserQuota(userId, quota, reason, expiredAt) with an expiredAt
call_switchUserQuota_expiredAt(p) ==
  \E u \in userIds, q \in QuotaInputs, t \in 1..MaxTime :
    Call(p, [NoCall EXCEPT !.op = "switchUserQuota", !.userId = u, !.quota = q,
                           !.expiredAt = t],
         "sw_hasQuota")

\* Expiry: the quota of the one account is switched, with and without an
\* expiredAt, and read by getUserQuota, one operation after another, while
\* the clock advances.
NextExpiry ==
  \/ call_switchUserQuota("p1")
  \/ call_switchUserQuota_expiredAt("p1")
  \/ call_switchUserQuota_reason("p1")
  \/ call_getUserQuota("p1")
  \/ switchUserQuota("p1")
  \/ getUserQuota("p1")
  \/ TxFail("p1")
  \/ StmtFail("p1")
  \/ Tick

ExpirySpec == Init /\ [][NextExpiry]_vars

\* the account each process works on in PairSpec
account == [p1 |-> "u1", p2 |-> "u2"]

\* Two accounts: process p1 switches the quota of account u1 and adds
\* features to it while process p2 does the same to account u2, their
\* statements interleaved.
InitPair == \E registry \in {Features, QuotaFeatures} : InitWith(registry, {"u1", "u2"})

NextPair ==
  \E p \in Procs :
    \/ call_switchUserQuota(p) /\ call'[p].userId = account[p]
    \/ call_addUserFeatures(p) /\ call'[p].userId = account[p]
    \/ switchUserQuota(p)
    \/ addUserFeatures(p)
    \/ TxFail(p)

PairSpec == InitPair /\ [][NextPair]_vars

\* The accounts: two processes create, fulfill (as ordinary users), update
\* and delete accounts, their statements interleaved, from the empty tables
\* of users and activation records, with the registry of the source seeded.
InitUser == InitWith(Features, {})

NextUser ==
  \E p \in Procs :
    \/ call_fulfillUser(p) /\ call'[p].group = "User"
    \/ call_fulfillUser_dataEmail(p)
    \/ call_deleteUser(p)
    \/ call_updateUser(p)
    \/ fulfillUser(p)
    \/ createUser(p)
    \/ addUserFeatures(p)
    \/ deleteUser(p)
    \/ updateUser(p)
    \/ TxFail(p)
    \/ StmtFail(p)

UserSpec == InitUser /\ [][NextUser]_vars

-----------------------------------------------------------------------------
(* Properties                                                              *)

AllIdle == \A p \in Procs : Idle(p)

\* the committed activation records of account u that are in effect and
\* whose definition has kind Quota
ActiveQuotaRecords(u) ==
  { r \in userFeature :
      r.userId = u /\ r.activated /\ feature[r.featureId].type = FeatureKind.Quota }

\* the committed records of account u whose definition has kind Quota
QuotaRecords(u) ==
  { r \in userFeature : r.userId = u /\ feature[r.featureId].type = FeatureKind.Quota }

\* C1: after any sequence of switchUserQuota, addUserFeatures, fulfillUser and
\* subscription events, each run to completion one after another, every
\* account has at most one active record whose definition has kind Quota.
C1_AtMostOneActiveQuota ==
  AllIdle => \A u \in Users : Cardinality(ActiveQuotaRecords(u)) <= 1

\* an account that was switched twice: one active quota record, one
\* deactivated one
C1_Witness ==
  /\ AllIdle
  /\ \E u \in Users :
       /\ Cardinality(ActiveQuotaRecords(u)) = 1
       /\ Cardinality(QuotaRecords(u)) = 2

\* C2: once two concurrent switchUserQuota(acct, A) and switchUserQuota(acct, B)
\* have both finished, the account has exactly one active quota record,
\* never two and never zero.  Stated of every account whose quota records
\* reference two different definitions, when no operation is in flight.
C2_ConcurrentSwitchOneActive ==
  AllIdle =>
    \A u \in Users :
      (\E r1, r2 \in QuotaRecords(u) : r1.featureId # r2.featureId)
        => Cardinality(ActiveQuotaRecords(u)) = 1

\* C3: a switchUserQuota(acct, Q) that runs while Q is the active quota of the
\* account, as the second of two calls in a row does, inserts nothing and
\* changes no record; and hasQuota(acct, Q) is true when a switchUserQuota
\* (acct, Q) has returned.
C3_SecondSwitchIsNoOp ==
  [][ \A p \in Procs, u \in Users, q \in QuotaType :
        (call[p].op = "switchUserQuota" /\ call[p].userId = u /\ call[p].quota = q)
        => /\ (hasQuota(u, q, prisma) /\ pc'[p] # pc[p])
                => /\ userFeature' = userFeature
                   /\ nextId' = nextId
                   /\ txIns'[p] = {} /\ txUpd'[p] = {}
           /\ (pc[p] = "sw_commit" /\ pc'[p] = "idle" /\ result'.outcome = "ok")
                => hasQuota(u, q, prisma)' ]_vars

\* the second call found Q active and is about to return; Q has one record
C3_Witness ==
  \E p \in Procs :
    /\ call[p].op = "switchUserQuota"
    /\ pc[p] = "sw_commit"
    /\ hasSameActivatedQuota[p]
    /\ Cardinality({ r \in userFeature :
                       /\ r.userId = call[p].userId
                       /\ feature[r.featureId].feature = call[p].quota }) = 1

\* C4: for an account whose only quota record is the active Personal one, the
\* commit of switchUserQuota(acct, Team) leaves Team active, hasQuota(acct,
\* Personal) false, the Personal record present with activated = false, and
\* getUserQuotas(acct) = the Personal record then the Team record.
C4_SwitchPersonalToTeam ==
  [][ \A p \in Procs, u \in Users, old \in userFeature :
        ( /\ call[p].op = "switchUserQuota"
          /\ call[p].userId = u
          /\ call[p].quota = FeatureType.TeamWorkspace
          /\ pc[p] = "sw_commit" /\ pc'[p] = "idle" /\ result'.outcome = "ok"
          /\ QuotaRecords(u) = {old}
          /\ old.activated
          /\ feature[old.featureId].feature = FeatureType.PersonalWorkspace )
        => /\ hasQuota(u, FeatureType.TeamWorkspace, prisma)'
           /\ ~ hasQuota(u, FeatureType.PersonalWorkspace, prisma)'
           /\ Len(getUserQuotas(u)') = 2
           /\ getUserQuotas(u)'[1] = [old EXCEPT !.activated = FALSE]
           /\ getUserQuotas(u)'[2].activated
           /\ getUserQuotas(u)'[2].id > old.id
           /\ feature[getUserQuotas(u)'[2].featureId].feature = FeatureType.TeamWorkspace
           /\ feature[getUserQuotas(u)'[2].featureId].type = FeatureKind.Quota ]_vars

\* the account after the switch: Personal deactivated, then Team active
C4_Witness ==
  /\ AllIdle
  /\ result = Result("switchUserQuota", "ok")
  /\ \E u \in Users :
       /\ Len(getUserQuotas(u)) = 2
       /\ ~ getUserQuotas(u)[1].activated
       /\ feature[getUserQuotas(u)[1].featureId].feature = FeatureType.PersonalWorkspace
       /\ getUserQuotas(u)[2].activated
       /\ feature[getUserQuotas(u)[2].featureId].feature = FeatureType.TeamWorkspace

\* the ids of the committed records
Ids == { r.id : r \in userFeature }

\* C5: a switchUserQuota that fails (its definition lookup, its deactivation,
\* its insertion or its commit) leaves the committed ledger as it was and
\* nothing pending: the only step of switchUserQuota that changes a committed
\* record is its successful commit, which inserts the new record in the same
\* step as it deactivates the old ones.
C5_FailedSwitchLeavesLedger ==
  [][ \A p \in Procs, u \in Users :
        (call[p].op = "switchUserQuota" /\ call[p].userId = u /\ pc'[p] # pc[p])
        => /\ (pc'[p] = "idle" /\ result'.outcome # "ok")
                => /\ userFeature' = userFeature
                   /\ txIns'[p] = {} /\ txUpd'[p] = {}
           /\ (userFeature' # userFeature)
                => /\ pc[p] = "sw_commit" /\ pc'[p] = "idle" /\ result'.outcome = "ok"
                   /\ \E r \in userFeature' :
                        r.id \notin Ids /\ r.userId = u /\ r.activated ]_vars

\* a switchUserQuota failed after its transaction had deactivated the active
\* record and created the new one (the id of the new one is used up), and
\* the record is still active
C5_Witness ==
  /\ AllIdle
  /\ result = Result("switchUserQuota", "failed")
  /\ \E r \in userFeature :
       /\ r.activated
       /\ feature[r.featureId].type = FeatureKind.Quota
       /\ nextId > r.id + 1
       /\ \A x \in userFeature : x.id <= r.id

\* C6: once an account has an active quota record it has one in every later
\* state: no step takes it back to having none.
C6_ActiveQuotaStaysActive ==
  [][ \A u \in Users :
        (ActiveQuotaRecords(u) # {}) => (ActiveQuotaRecords(u) # {})' ]_vars

\* C7: with the seeded catalog (the registry Features), when fulfillUser for
\* the group User has returned for an account that had no record, as a new
\* account has none, the account has exactly one active quota record and
\* getUserQuota(acct) returns the Personal quota.
C7_CreatedAccountHasPersonalQuota ==
  [][ \A p \in Procs, u \in Users :
        ( /\ feature = Features
          /\ call[p].op = "fulfillUser" /\ call[p].userId = u /\ call[p].group = "User"
          /\ { r \in userFeature : r.userId = u } = {}
          /\ pc[p] = "af_commit" /\ pc'[p] = "idle" /\ result'.outcome = "ok" )
        => /\ Cardinality(ActiveQuotaRecords(u)') = 1
           /\ hasQuota(u, FeatureType.PersonalWorkspace, prisma)'
           /\ getUserQuotaReturns(u)'
           /\ \A r \in getUserQuotaRows(u)' :
                feature[r.featureId].feature = FeatureType.PersonalWorkspace ]_vars

\* C8: the deactivation of the active records of an account by
\* switchUserQuota or fulfillUser and the insertion of the replacement are
\* one atomic unit: a step of either operation that deactivates a committed
\* record of the account also commits a new active record of the account.
C8_DeactivateAndInsertAtomic ==
  [][ \A p \in Procs, u \in Users :
        ( /\ call[p].op \in {"switchUserQuota", "fulfillUser"}
          /\ call[p].userId = u
          /\ pc'[p] # pc[p]
          /\ \E r \in userFeature :
               /\ r.userId = u /\ r.activated
               /\ [r EXCEPT !.activated = FALSE] \in userFeature' )
        => \E n \in userFeature' :
             n.id \notin Ids /\ n.userId = u /\ n.activated ]_vars

\* no definition of kind Quota named q is persisted
NoQuotaDefinition(q) ==
  ~ \E n \in DOMAIN feature :
      feature[n].feature = q /\ feature[n].type = FeatureKind.Quota

\* C9: switchUserQuota(acct, Q) for a name Q with no persisted definition of
\* kind Quota ends at its definition lookup with the not-found error (or
\* earlier, when a statement fails), never returns, and no step of it
\* deactivates or inserts a record, committed or pending.
C9_UnknownQuotaNotFound ==
  [][ \A p \in Procs, q \in QuotaType :
        ( /\ call[p].op = "switchUserQuota" /\ call[p].quota = q
          /\ NoQuotaDefinition(q)
          /\ pc'[p] # pc[p] )
        => /\ userFeature' = userFeature
           /\ nextId' = nextId
           /\ txIns'[p] = {} /\ txUpd'[p] = {}
           /\ pc'[p] \in {"sw_findFirst", "idle"}
           /\ (pc[p] = "sw_findFirst") => (pc'[p] = "idle")
           /\ (pc'[p] = "idle")
                => result' \in { Result("switchUserQuota", "quota_not_found"),
                                 Result("switchUserQuota", "failed") } ]_vars

\* a switchUserQuota ended with the not-found error on an account that has an
\* active quota record
C9_Witness ==
  /\ AllIdle
  /\ result = Result("switchUserQuota", "quota_not_found")
  /\ \E u \in Users : ActiveQuotaRecords(u) # {}

\* C10: in every reachable state no account has two active records that
\* reference definitions of kind Feature with the same feature name.
C10_NoDuplicateActiveFeature ==
  \A r1, r2 \in userFeature :
    ( /\ r1.userId = r2.userId
      /\ r1.activated /\ r2.activated
      /\ feature[r1.featureId].type = FeatureKind.Feature
      /\ feature[r2.featureId].type = FeatureKind.Feature
      /\ feature[r1.featureId].feature = feature[r2.featureId].feature )
    => r1.id = r2.id

\* C11: when addUserFeatures(acct, names) returns, each name that was actively
\* granted got no new record and each other name got exactly one new active
\* record, of kind Feature, however often it occurs in names; afterwards
\* every name is actively granted; and a call whose names are all actively
\* granted, as the second of two calls with the same names is, inserts and
\* changes nothing.
C11_AddUserFeaturesIdempotent ==
  [][ \A p \in Procs : \A u \in {call[p].userId} : \A fs \in {call[p].features} :
        (call[p].op = "addUserFeatures" /\ pc'[p] # pc[p])
        => /\ (pc[p] = "af_commit" /\ pc'[p] = "idle" /\ result'.outcome = "ok")
                => \A k \in DOMAIN fs :
                     /\ Cardinality({ r \in userFeature' :
                                        /\ r.id \notin Ids
                                        /\ r.userId = u
                                        /\ r.activated
                                        /\ feature[r.featureId].type = FeatureKind.Feature
                                        /\ feature[r.featureId].feature = fs[k] })
                          = IF hasActiveFeature(prisma, u, fs[k]) THEN 0 ELSE 1
                     /\ hasActiveFeature(prisma, u, fs[k])'
           /\ (\A k \in DOMAIN fs : hasActiveFeature(prisma, u, fs[k]))
                => /\ userFeature' = userFeature
                   /\ nextId' = nextId
                   /\ txIns'[p] = {} /\ txUpd'[p] = {}
           /\ \A r \in userFeature : r \in userFeature' ]_vars

\* an addUserFeatures with two names is about to return: the first name was
\* actively granted and is skipped, the second got its record
C11_Witness ==
  \E p \in Procs :
    /\ call[p].op = "addUserFeatures"
    /\ pc[p] = "af_commit"
    /\ Len(call[p].features) = 2
    /\ hasActiveFeature(prisma, call[p].userId, call[p].features[1])
    /\ ~ hasActiveFeature(prisma, call[p].userId, call[p].features[2])
    /\ Cardinality(txIns[p]) = 1
    /\ \A r \in txIns[p] : feature[r.featureId].feature = call[p].features[2]

\* C12: no step, of the migration or of any operation, changes the definition
\* an activation record references or the row of that definition: a record
\* created while version 1 of a quota was the latest still resolves to the
\* version-1 row after version 2 has been seeded, and every persisted
\* definition row stays as it was inserted.
C12_RecordPinnedToVersion ==
  [][ /\ \A r \in userFeature :
           /\ \E r2 \in userFeature' : r2.id = r.id /\ r2.featureId = r.featureId
           /\ r.featureId \in DOMAIN feature'
           /\ feature'[r.featureId] = feature[r.featureId]
      /\ \A n \in DOMAIN feature :
           n \in DOMAIN feature' /\ feature'[n] = feature[n] ]_vars

\* a record references version 1 of a definition of kind Quota while
\* version 2 of the same quota is persisted
C12_Witness ==
  \E r \in userFeature :
    /\ r.activated
    /\ feature[r.featureId].type = FeatureKind.Quota
    /\ feature[r.featureId].version = 1
    /\ \E n \in DOMAIN feature :
         /\ feature[n].feature = feature[r.featureId].feature
         /\ feature[n].type = FeatureKind.Quota
         /\ feature[n].version = 2

\* the expiredAt of r is set and lies in the past
Expired(r) == r.expiredAt # 0 /\ r.expiredAt < now

\* C13: the read path treats expiry as deactivation: the record getUserQuota
\* has found is never one whose expiredAt is set and in the past, and
\* hasQuota(acct, Q) is true only when the account has an activated record of
\* quota Q that is not expired.
C13_ExpiredNotReportedActive ==
  /\ \A p \in Procs : (pc[p] = "gq_get") => ~ Expired(quotas[p][1])
  /\ \A u \in Users, q \in QuotaType :
       hasQuota(u, q, prisma)
         => \E r \in userFeature :
              /\ r.userId = u
              /\ r.activated
              /\ ~ Expired(r)
              /\ feature[r.featureId].feature = q
              /\ feature[r.featureId].type = FeatureKind.Quota

\* C14: getUserQuota(acct) for an account that has no active record of kind
\* Quota ends with an error (no quota, no config, or the rejection of its
\* findFirst), never with a value; and no step of getUserQuota changes a
\* table or a pending write.
C14_NoActiveQuotaIsAnError ==
  [][ \A p \in Procs : \A u \in {call[p].userId} :
        (call[p].op = "getUserQuota" /\ pc'[p] # pc[p])
        => /\ (ActiveQuotaRecords(u) = {} /\ pc'[p] = "idle")
                => /\ result'.op = "getUserQuota"
                   /\ result'.outcome \in {"no_quota", "config_not_found", "failed"}
                   /\ result'.value = << >>
           /\ UNCHANGED <<feature, users, userFeature, nextId, txIns, txUpd, stmtRows>> ]_vars

\* getUserQuota threw its no-quota error for an account whose quota records
\* are all deactivated
C14_Witness ==
  /\ AllIdle
  /\ result = Result("getUserQuota", "no_quota")
  /\ \E u \in userIds : QuotaRecords(u) # {} /\ ActiveQuotaRecords(u) = {}

\* C15: getUserQuotas(acct) finds exactly the records of the account whose
\* definition has kind Quota, in the order of their ids; the config of each
\* is attached when its definition resolves and the record is dropped when
\* QuotaConfig.get throws, which it does whenever the definition does not
\* resolve; the records kept are returned in the same order; and once its
\* findMany has returned the query never ends with an error (it fails only
\* when the findMany itself is rejected).
C15_QuotaHistoryOmitsUnresolved ==
  [][ \A p \in Procs : \A u \in {call[p].userId} : \A k \in {i[p]} :
        (call[p].op = "getUserQuotas" /\ (pc'[p] # pc[p] \/ i'[p] # i[p]))
        => /\ (pc[p] = "gqs_findMany" /\ pc'[p] # "idle")
                => /\ Len(quotas'[p]) = Cardinality(QuotaRecords(u))
                   /\ \A r \in QuotaRecords(u) :
                        LET n == Cardinality({ x \in QuotaRecords(u) : x.id <= r.id })
                        IN quotas'[p][n] =
                             [activated |-> r.activated, reason |-> r.reason,
                              expiredAt |-> r.expiredAt, featureId |-> r.featureId,
                              feature |-> 0]
           /\ (pc[p] = "gqs_get")
                => /\ Len(quotas'[p]) = Len(quotas[p])
                   /\ \A j \in DOMAIN quotas[p] : j # k => quotas'[p][j] = quotas[p][j]
                   /\ quotas'[p][k].feature \in {0, quotas[p][k].featureId}
                   /\ [quotas'[p][k] EXCEPT !.feature = 0] = quotas[p][k]
                   /\ ~ QuotaConfigResolves(quotas[p][k].featureId)
                        => quotas'[p][k].feature = 0
           /\ (pc'[p] = "idle" /\ pc[p] = "gqs_findMany")
                => result' = Result("getUserQuotas", "failed")
           /\ (pc'[p] = "idle" /\ pc[p] # "gqs_findMany")
                => /\ pc[p] = "gqs_return"
                   /\ result'.op = "getUserQuotas" /\ result'.outcome = "ok"
                   /\ LET kept == { j \in DOMAIN quotas[p] : quotas[p][j].feature # 0 }
                      IN /\ Len(result'.value) = Cardinality(kept)
                         /\ \A j \in kept :
                              result'.value[Cardinality({ x \in kept : x <= j })]
                                = quotas[p][j]
           /\ UNCHANGED <<feature, users, userFeature, nextId, txIns, txUpd, stmtRows>> ]_vars

\* getUserQuotas returned one record for the account that has two records of
\* kind Quota: the other was dropped
C15_Witness ==
  /\ AllIdle
  /\ result.op = "getUserQuotas" /\ result.outcome = "ok"
  /\ Len(result.value) = 1
  /\ \E u \in userIds :
       /\ Cardinality(QuotaRecords(u)) = 2
       /\ \A v \in userIds \ {u} : QuotaRecords(v) = {}

\* C16: the handlers of user.subscription.activated and
\* user.subscription.canceled change no activation record, insert none and
\* leave nothing pending when the plan is 'pro', however often and in
\* whatever order the events are delivered.
C16_ProPlanEventsChangeNothing ==
  [][ \A p \in Procs :
        ( /\ call[p].op \in {"onSubscriptionUpdated", "onSubscriptionCanceled"}
          /\ call[p].plan = "pro"
          /\ pc'[p] # pc[p] )
        => UNCHANGED <<feature, users, userFeature, nextId, txIns, txUpd, stmtRows>> ]_vars

\* a cancellation has been handled and the only account still has its active
\* quota record and its active AI feature record, so the plan was 'pro'
C16_Witness ==
  /\ AllIdle
  /\ result = Result("onSubscriptionCanceled", "ok")
  /\ \E u \in Users :
       /\ userIds = {u}
       /\ ActiveQuotaRecords(u) # {}
       /\ hasActiveFeature(prisma, u, FeatureType.UnlimitedCopilot)

\* the rows of account a among those process p reads
OwnRows(p, a) == { r \in View(p) : r.userId = a }

\* C17: a step of switchUserQuota(a, ...) or addUserFeatures(a, ...) changes
\* no committed record of another account and leaves pending only writes to
\* records of a; and what it decides is decided by the records of a alone
\* (the early return of switchUserQuota, the records it deactivates, the
\* names addUserFeatures skips) whenever the statement does not fail.
C17_AccountsIndependent ==
  [][ \A p \in Procs : \A a \in {call[p].userId} :
        (call[p].op \in {"switchUserQuota", "addUserFeatures"} /\ pc'[p] # pc[p])
        => /\ \A r \in userFeature \cup userFeature' :
                r.userId # a => (r \in userFeature /\ r \in userFeature')
           /\ \A r \in txIns'[p] : r.userId = a
           /\ \A n \in txUpd'[p] : \E r \in userFeature : r.id = n /\ r.userId = a
           /\ \A q \in Procs \ {p} : txIns'[q] = txIns[q] /\ txUpd'[q] = txUpd[q]
           /\ (pc[p] = "sw_hasQuota" /\ pc'[p] # "idle")
                => (pc'[p] = "sw_commit"
                      <=> \E r \in OwnRows(p, a) :
                            /\ r.activated
                            /\ feature[r.featureId].feature = call[p].quota
                            /\ feature[r.featureId].type = FeatureKind.Quota)
           /\ (pc[p] = "sw_updateMany" /\ pc'[p] # "idle")
                => txUpd'[p] = { r.id : r \in { x \in OwnRows(p, a) :
                                    feature[x.featureId].type = FeatureKind.Quota } }
           /\ (pc[p] = "af_findFlag" /\ pc'[p] # "idle")
                => (pc'[p] # "af_findFirst"
                      <=> \E r \in OwnRows(p, a) :
                            /\ r.activated
                            /\ feature[r.featureId].feature = call[p].features[i[p]]
                            /\ feature[r.featureId].type = FeatureKind.Feature) ]_vars

\* the transaction of one process has deactivated the quota record of its
\* account and inserted the new one, not yet committed, and the other
\* process has run the deactivation of its own switchUserQuota meanwhile
C17_Witness ==
  \E p \in Procs, q \in Procs :
    /\ call[p].op = "switchUserQuota" /\ call[q].op = "switchUserQuota"
    /\ call[p].userId # call[q].userId
    /\ pc[p] = "sw_commit" /\ txIns[p] # {} /\ txUpd[p] # {}
    /\ pc[q] = "sw_create"

\* C18: every committed activation record is still there after every step,
\* with the account, the definition reference, the reason and the expiredAt
\* it was created with; a step changes at most its activated flag, and only
\* from true to false.  So the history of an account only grows.
C18_RecordsNeverDeletedOrRepointed ==
  [][ \A r \in userFeature :
        \E r2 \in userFeature' :
          /\ r2.id = r.id
          /\ r2.userId = r.userId
          /\ r2.featureId = r.featureId
          /\ r2.reason = r.reason
          /\ r2.expiredAt = r.expiredAt
          /\ r2.activated => r.activated ]_vars

\* fulfillUser has deactivated the sign up record of an account and inserted
\* a new one for the same definition: both are in the history
C18_Witness ==
  /\ AllIdle
  /\ result = Result("fulfillUser", "ok")
  /\ \E r1, r2 \in userFeature :
       /\ r1.userId = r2.userId
       /\ r1.featureId = r2.featureId
       /\ r1.reason = "sign up" /\ r2.reason = "sign up"
       /\ r1.id < r2.id
       /\ ~ r1.activated /\ r2.activated

\* definition n is the persisted definition of name and kind with the highest
\* version
HighestVersion(n, name, kind) ==
  /\ n \in DOMAIN feature
  /\ feature[n].feature = name
  /\ feature[n].type = kind
  /\ \A m \in DOMAIN feature :
       (feature[m].feature = name /\ feature[m].type = kind)
         => feature[m].version <= feature[n].version

\* C19: the definition switchUserQuota looks up is the persisted definition
\* of the requested name and kind Quota with the highest version, the one
\* addUserFeatures looks up is that of the name and kind Feature, and the
\* record each operation then inserts references the definition looked up.
C19_InsertReferencesLatestVersion ==
  [][ \A p \in Procs :
        /\ (pc[p] = "sw_findFirst" /\ pc'[p] = "sw_updateMany")
             => HighestVersion(featureId'[p], call[p].quota, FeatureKind.Quota)
        /\ (pc[p] = "af_findFirst" /\ pc'[p] = "af_create")
             => HighestVersion(featureId'[p], call[p].features[i[p]], FeatureKind.Feature)
        /\ (pc[p] \in {"sw_create", "af_create"})
             => \A r \in txIns'[p] : r \in txIns[p] \/ r.featureId = featureId[p] ]_vars

\* an active record references version 2 of a definition of kind Quota while
\* version 1 of it is persisted too
C19_Witness ==
  \E r \in userFeature :
    /\ r.activated
    /\ feature[r.featureId].type = FeatureKind.Quota
    /\ feature[r.featureId].version = 2
    /\ \E n \in DOMAIN feature :
         /\ feature[n].feature = feature[r.featureId].feature
         /\ feature[n].type = FeatureKind.Quota
         /\ feature[n].version = 1

\* the activation records of S of account u whose definition has kind Feature
FeatureRecords(S, u) ==
  { r \in S : r.userId = u /\ feature[r.featureId].type = FeatureKind.Feature }

\* C21: a step of switchUserQuota(acct, Q) leaves every activation record of
\* the account whose definition has kind Feature unchanged, in the committed
\* table and in what its own transaction sees, and the ids it deactivates
\* are ids of records of kind Quota only.
C21_SwitchLeavesFeatureRecords ==
  [][ \A p \in Procs :
        (call[p].op = "switchUserQuota" /\ pc'[p] # pc[p]) =>
          \A u \in {call[p].userId} :
            \A before \in {FeatureRecords(View(p), u)} :
              /\ FeatureRecords(userFeature', u) = FeatureRecords(userFeature, u)
              /\ FeatureRecords(View(p)', u) = before
              /\ \A r \in userFeature \cup txIns[p] :
                    r.id \in txUpd'[p] \ txUpd[p] =>
                      feature[r.featureId].type = FeatureKind.Quota ]_vars

\* a switch has run its deactivation step on an account that holds an active
\* quota and an active additive feature: the quota record is deactivated in
\* its transaction and the feature record is still active there
C21_Witness ==
  \E p \in Procs :
    /\ call[p].op = "switchUserQuota"
    /\ pc[p] = "sw_create"
    /\ \E r \in userFeature :
         /\ r.id \in txUpd[p]
         /\ r.userId = call[p].userId
         /\ feature[r.featureId].type = FeatureKind.Quota
    /\ \E r \in FeatureRecords(View(p), call[p].userId) : r.activated

\* C22: in every state the two read paths agree on every account.  Whatever
\* getUserQuota(acct) returns is a record of a definition of kind Quota for
\* which hasQuota(acct, name) is true; and when hasQuota(acct, Q) is true,
\* getUserQuota(acct) finds a record, the record it finds is one for Q, and
\* its definition resolves.
C22_ReadPathsAgree ==
  \A u \in Users :
    /\ \A r \in getUserQuotaRows(u) :
         QuotaConfigResolves(r.featureId) =>
           /\ feature[r.featureId].type = FeatureKind.Quota
           /\ hasQuota(u, feature[r.featureId].feature, prisma)
    /\ \A Q \in QuotaType :
         hasQuota(u, Q, prisma) =>
           /\ getUserQuotaRows(u) # {}
           /\ \A r \in getUserQuotaRows(u) :
                /\ QuotaConfigResolves(r.featureId)
                /\ feature[r.featureId].feature = Q

====
